---- MODULE Spec2Model ----
(***************************************************************************)
(* A model of voxelio.renderer: src/src/render-items.ts (main, the         *)
(* ResourceManager, the atlas builder, the render loop, the override       *)
(* merger) and src/src/twoD-overrides.ts (the declared 2D rules).          *)
(*                                                                         *)
(* Spec         one or more consecutive runs of main() over a persistent   *)
(*              output directory                                           *)
(* SpecClassify the classification set and the size chosen per id          *)
(* SpecAtlas    ResourceManager.loadBlockAtlas on one UV table entry       *)
(* SpecGraph    the ResourceManager constructor, step by step              *)
(*                                                                         *)
(* Strings are TLA+ strings; startsWith, endsWith, slice and toLowerCase   *)
(* are computed on them with Len, SubSeq and \o.                           *)
(***************************************************************************)
EXTENDS Integers, Sequences, FiniteSets, TLC

\* ------------------------------------------------------------------ bounds

\* Length of the item registry list of a run.
MaxIds == 3
\* Number of consecutive runs of main() over the same output directory.
MaxRuns == 2
\* Length of the texture registry list.
MaxTextures == 2
\* Number of ids a size is chosen for.
MaxCandidates == 2
\* Width and height of the source atlas image, in pixels.
MaxDim == 3
\* Number of entries of the model registry.
MaxModels == 3

\* ----------------------------------------------------------------- strings

UpperLetters == "ABCDEFGHIJKLMNOPQRSTUVWXYZ"
LowerLetters == "abcdefghijklmnopqrstuvwxyz"

\* String.prototype.startsWith
StartsWith(s, p) == Len(s) >= Len(p) /\ SubSeq(s, 1, Len(p)) = p

\* String.prototype.endsWith
EndsWith(s, p) == Len(s) >= Len(p) /\ SubSeq(s, Len(s) - Len(p) + 1, Len(s)) = p

\* String.prototype.slice(n): the string from offset n to the end
Slice(s, n) == SubSeq(s, n + 1, Len(s))

LowerChar(c) ==
    IF \E i \in 1..26 : SubSeq(UpperLetters, i, i) = c
    THEN LET i == CHOOSE j \in 1..26 : SubSeq(UpperLetters, j, j) = c
         IN  SubSeq(LowerLetters, i, i)
    ELSE c

RECURSIVE ToLowerCase(_)
\* String.prototype.toLowerCase
ToLowerCase(s) ==
    IF Len(s) = 0 THEN ""
    ELSE LowerChar(SubSeq(s, 1, 1)) \o ToLowerCase(SubSeq(s, 2, Len(s)))

\* --------------------------------------------------------------- the inputs

\* The item registry the list of a run is taken from, in registry order.
ItemRegistry == <<"stone", "torch", "apple", "air">>

RegistryIds == {ItemRegistry[i] : i \in 1..Len(ItemRegistry)}

ListIds(list) == {list[i] : i \in 1..Len(list)}

Min(a, b) == IF a <= b THEN a ELSE b

\* fetchItemRegistryList: the ordered id lists a run may get.
RegistryLists ==
    {SubSeq(ItemRegistry, 1, n) : n \in 1..Min(MaxIds, Len(ItemRegistry))}

\* The shapes of an item_definition entry that loadItemModels tells apart.
DefShapes == {"record_with_model", "record_without_model"}

\* path.join(outputDir, `${id}.png`), relative to the output directory
OutPath(id) == id \o ".png"

\* The listings readdir may give for a hardcoded directory that exists.
HardcodedListings ==
    { << [name |-> "stone.png", isFile |-> TRUE],
         [name |-> "player_head.png", isFile |-> TRUE] >>,
      << [name |-> "notes.txt", isFile |-> TRUE],
         [name |-> "TORCH.PNG", isFile |-> TRUE],
         [name |-> "apple.png", isFile |-> FALSE] >> }

HardcodedNames ==
    UNION {{l[i].name : i \in 1..Len(l)} : l \in HardcodedListings}

\* The hardcoded directory: missing (readdir rejects), or there with a listing.
HardcodedDirs ==
    {[exists |-> FALSE, entries |-> <<>>]}
        \cup {[exists |-> TRUE, entries |-> l] : l \in HardcodedListings}

FileNames == {OutPath(id) : id \in RegistryIds} \cup HardcodedNames

\* What a path of the output directory holds: nothing, a file that was there
\* before the first run, a generated render, the remains of a write that
\* failed, or a copy of a hardcoded icon.
Contents == {"none", "old", "render", "partial", "hardcoded"}

\* -------------------------------------------------------------------- state

VARIABLES
    availableIds,     \* main: availableIds, the registry list
    itemDefinitions,  \* fetchResources: itemDefinitions, id -> shape
    hardcoded,        \* the hardcoded directory of the run
    itemModels,       \* ResourceManager.itemModels, as the set of its keys
    output,           \* the output directory: file name -> content
    startOutput,      \* the output directory as the current run found it
    pc,               \* where main is
    run,              \* which run of main this is
    idx,              \* the position of the for loop in availableIds
    outcomes,         \* this run's terminal outcomes, in the order reached
    prevOutcomes,     \* the previous run's outcomes
    written,          \* paths writeFile was called on in this run's loop
    surfaces,         \* loop positions whose GL context is live
    mergeIdx,         \* the position of mergeHardcodedIcons in its listing
    fatal,            \* which failure escaped main, "none" if none did
    exitStatus,       \* the process exit status, -1 while running
    \* SpecClassify
    textures,         \* fetchTwoDItemIds: the texture registry list
    candidates,       \* the ids whose size is chosen
    detectedTwoDItemIds, \* main: detectedTwoDItemIds
    twoDItemIds,      \* main: twoDItemIds
    sizes,            \* the sizes chosen so far, in order
    cpc,              \* where the classification is
    \* SpecAtlas
    atlasInput,       \* loadBlockAtlas: the image size and one textures entry
    idMap,            \* loadBlockAtlas: idMap, as the UV of that entry
    apc,              \* where loadBlockAtlas is
    \* SpecGraph
    rawModels,        \* constructor: models, in Map order
    blockDefinitions, \* ResourceManager.blockDefinitions is filled
    blockModels,      \* ResourceManager.blockModels, the ids stored
    flattened,        \* the block models flatten has been called on
    textureAtlas,     \* ResourceManager.textureAtlas is assigned
    graphItemModels,  \* ResourceManager.itemModels is filled
    queries,          \* the lookups flatten made, with what they found
    loaded,           \* the load steps completed, in order
    gIdx,             \* the position of the running loop of loadBlockModels
    gpc               \* where the constructor is

mainVars == <<availableIds, itemDefinitions, hardcoded, itemModels, output,
              startOutput, pc, run, idx, outcomes, prevOutcomes, written,
              surfaces, mergeIdx, fatal, exitStatus>>

classifyVars == <<textures, candidates, detectedTwoDItemIds, twoDItemIds,
                  sizes, cpc>>

atlasVars == <<atlasInput, idMap, apc>>

graphVars == <<rawModels, blockDefinitions, blockModels, flattened,
               textureAtlas, graphItemModels, queries, loaded, gIdx, gpc>>

vars == <<mainVars, classifyVars, atlasVars, graphVars>>

\* What a run of main never changes: its inputs, and the state of the other
\* specifications.
inputs == <<availableIds, itemDefinitions, hardcoded, classifyVars, atlasVars,
            graphVars>>

\* The state of a part of the program a specification does not exercise.
ClassifyIdle ==
    /\ textures = <<>>
    /\ candidates = <<>>
    /\ detectedTwoDItemIds = {}
    /\ twoDItemIds = {}
    /\ sizes = <<>>
    /\ cpc = "idle"

AtlasIdle ==
    /\ atlasInput = [idle |-> TRUE]
    /\ idMap = <<>>
    /\ apc = "idle"

GraphIdle ==
    /\ rawModels = <<>>
    /\ blockDefinitions = FALSE
    /\ blockModels = {}
    /\ flattened = {}
    /\ textureAtlas = FALSE
    /\ graphItemModels = FALSE
    /\ queries = {}
    /\ loaded = <<>>
    /\ gIdx = 0
    /\ gpc = "idle"

MainIdle ==
    /\ availableIds = <<>>
    /\ itemDefinitions = <<>>
    /\ hardcoded = [exists |-> FALSE, entries |-> <<>>]
    /\ itemModels = {}
    /\ output = [f \in FileNames |-> "none"]
    /\ startOutput = output
    /\ pc = "idle"
    /\ run = 1
    /\ idx = 0
    /\ outcomes = <<>>
    /\ prevOutcomes = <<>>
    /\ written = {}
    /\ surfaces = {}
    /\ mergeIdx = 0
    /\ fatal = "none"
    /\ exitStatus = -1

\* The state main() starts a run in.
Init ==
    /\ availableIds \in RegistryLists
    /\ itemDefinitions \in [ListIds(availableIds) -> DefShapes]
    /\ hardcoded \in HardcodedDirs
    /\ itemModels = {}
    /\ \E old \in SUBSET ListIds(availableIds) :
          output = [f \in FileNames |->
                       IF f \in {OutPath(id) : id \in old} THEN "old" ELSE "none"]
    /\ startOutput = output
    /\ pc = "fetchRegistry"
    /\ run = 1
    /\ idx = 0
    /\ outcomes = <<>>
    /\ prevOutcomes = <<>>
    /\ written = {}
    /\ surfaces = {}
    /\ mergeIdx = 0
    /\ fatal = "none"
    /\ exitStatus = -1
    /\ ClassifyIdle
    /\ AtlasIdle
    /\ GraphIdle

\* main().catch: console.error(err); process.exit(1)
Fatal(cause) ==
    /\ pc' = "exited"
    /\ fatal' = cause
    /\ exitStatus' = 1

\* const availableIds = await fetchItemRegistryList()
FetchItemRegistryList ==
    /\ pc = "fetchRegistry"
    /\ \/ pc' = "fetchAll" /\ UNCHANGED <<fatal, exitStatus>>
       \/ Fatal("fetch")
    /\ UNCHANGED <<inputs, itemModels, output, startOutput, run, idx, outcomes,
                   prevOutcomes, written, surfaces, mergeIdx>>

\* await Promise.all([fetchItemComponents(), fetchResources(), fetchTwoDItemIds()])
FetchAll ==
    /\ pc = "fetchAll"
    /\ \/ pc' = "construct" /\ UNCHANGED <<fatal, exitStatus>>
       \/ Fatal("fetch")
    /\ UNCHANGED <<inputs, itemModels, output, startOutput, run, idx, outcomes,
                   prevOutcomes, written, surfaces, mergeIdx>>

\* loadItemModels: an entry gets an ItemModel only when it is a record with a
\* nested record `model`.
LoadItemModels(definitions) ==
    {id \in DOMAIN definitions : definitions[id] = "record_with_model"}

\* new ResourceManager(...): the four load steps, any of which may throw.
NewResourceManager ==
    /\ pc = "construct"
    /\ \/ /\ itemModels' = LoadItemModels(itemDefinitions)
          /\ pc' = "mkdir"
          /\ UNCHANGED <<fatal, exitStatus>>
       \/ Fatal("graph") /\ UNCHANGED itemModels
    /\ UNCHANGED <<inputs, output, startOutput, run, idx, outcomes,
                   prevOutcomes, written, surfaces, mergeIdx>>

\* await mkdir(outputDir, { recursive: true }), outside any try
Mkdir ==
    /\ pc = "mkdir"
    /\ \/ pc' = "loop" /\ idx' = 1 /\ UNCHANGED <<fatal, exitStatus>>
       \/ Fatal("mkdir") /\ UNCHANGED idx
    /\ UNCHANGED <<inputs, itemModels, output, startOutput, run, outcomes,
                   prevOutcomes, written, surfaces, mergeIdx>>

\* Mutant of GetItemModel: the loop does not test for a model.
GetItemModelAlways(id) == TRUE

\* resources.getItemModel(identifier)
GetItemModel(id) == id \in itemModels

\* The id reaches a terminal outcome and the for loop moves on.
Terminal(o) ==
    /\ outcomes' = Append(outcomes, [id |-> availableIds[idx], outcome |-> o])
    /\ idx' = idx + 1
    /\ pc' = "loop"

\* for (const id of availableIds): the list is exhausted
LoopExit ==
    /\ pc = "loop"
    /\ idx > Len(availableIds)
    /\ pc' = "merge"
    /\ UNCHANGED <<inputs, itemModels, output, startOutput, run, idx, outcomes,
                   prevOutcomes, written, surfaces, mergeIdx, fatal,
                   exitStatus>>

\* if (!resources.getItemModel(identifier)) { ...; continue }
SkipNoModel ==
    /\ pc = "loop"
    /\ idx <= Len(availableIds)
    /\ ~GetItemModel(availableIds[idx])
    /\ Terminal("SKIPPED_NO_MODEL")
    /\ UNCHANGED <<inputs, itemModels, output, startOutput, run, prevOutcomes,
                   written, surfaces, mergeIdx, fatal, exitStatus>>

\* the id has a model: enter the try block
EnterTry ==
    /\ pc = "loop"
    /\ idx <= Len(availableIds)
    /\ GetItemModel(availableIds[idx])
    /\ pc' = "access"
    /\ UNCHANGED <<inputs, itemModels, output, startOutput, run, idx, outcomes,
                   prevOutcomes, written, surfaces, mergeIdx, fatal,
                   exitStatus>>

\* Mutant of OutputExists: the existence test never finds the file.
OutputExistsNever(id) == FALSE

\* await access(outPath) resolves exactly when the path exists
OutputExists(id) == output[OutPath(id)] # "none"

\* Mutant of Access: the skip is logged but its `continue` is missing, so the
\* render goes on over the existing file.
AccessNoContinue ==
    /\ pc = "access"
    /\ pc' = "createGL"
    /\ UNCHANGED <<idx, outcomes>>
    /\ UNCHANGED <<inputs, itemModels, output, startOutput, run, prevOutcomes,
                   written, surfaces, mergeIdx, fatal, exitStatus>>

\* try { await access(outPath); ...; continue } catch { }
Access ==
    /\ pc = "access"
    /\ IF OutputExists(availableIds[idx])
       THEN Terminal("SKIPPED_EXISTS")
       ELSE pc' = "createGL" /\ UNCHANGED <<idx, outcomes>>
    /\ UNCHANGED <<inputs, itemModels, output, startOutput, run, prevOutcomes,
                   written, surfaces, mergeIdx, fatal, exitStatus>>

\* Mutant of RenderFailed: the catch sits outside the for loop, so a failure
\* ends the loop.
RenderFailedBreaks ==
    /\ outcomes' = Append(outcomes, [id |-> availableIds[idx], outcome |-> "FAILED"])
    /\ idx' = idx + 1
    /\ pc' = "merge"

\* catch (e) { console.warn(`Failed to render ${id}:`, e) }
RenderFailed == Terminal("FAILED")

\* renderItemToPng: createGL(size, size, ...)
CreateGL ==
    /\ pc = "createGL"
    /\ \/ /\ surfaces' = surfaces \cup {idx}
          /\ pc' = "draw"
          /\ UNCHANGED <<idx, outcomes>>
       \/ RenderFailed /\ UNCHANGED surfaces
    /\ UNCHANGED <<inputs, itemModels, output, startOutput, run, prevOutcomes,
                   written, mergeIdx, fatal, exitStatus>>

\* renderItemToPng: new ItemRenderer, setViewport, clear, drawItem, readPixels;
\* a throw here leaves the function before gl.destroy
Draw ==
    /\ pc = "draw"
    /\ \/ pc' = "destroy" /\ UNCHANGED <<idx, outcomes>>
       \/ RenderFailed
    /\ UNCHANGED <<inputs, itemModels, output, startOutput, run, prevOutcomes,
                   written, surfaces, mergeIdx, fatal, exitStatus>>

\* renderItemToPng: gl.destroy?.()
Destroy ==
    /\ pc = "destroy"
    /\ surfaces' = surfaces \ {idx}
    /\ pc' = "encode"
    /\ UNCHANGED <<inputs, itemModels, output, startOutput, run, idx, outcomes,
                   prevOutcomes, written, mergeIdx, fatal, exitStatus>>

\* renderItemToPng: flipYAxis, createCanvas, putImageData, toBuffer
Encode ==
    /\ pc = "encode"
    /\ \/ pc' = "write" /\ UNCHANGED <<idx, outcomes>>
       \/ RenderFailed
    /\ UNCHANGED <<inputs, itemModels, output, startOutput, run, prevOutcomes,
                   written, surfaces, mergeIdx, fatal, exitStatus>>

\* await writeFile(outPath, png): a write that fails may have created the file
WriteFile ==
    /\ pc = "write"
    /\ written' = written \cup {OutPath(availableIds[idx])}
    /\ \/ /\ output' = [output EXCEPT ![OutPath(availableIds[idx])] = "render"]
          /\ Terminal("SUCCEEDED")
       \/ /\ \E c \in {output[OutPath(availableIds[idx])], "partial"} :
                output' = [output EXCEPT ![OutPath(availableIds[idx])] = c]
          /\ RenderFailed
    /\ UNCHANGED <<inputs, itemModels, startOutput, run, prevOutcomes,
                   surfaces, mergeIdx, fatal, exitStatus>>

\* main returns: the process ends with status 0
Return ==
    /\ pc' = "exited"
    /\ exitStatus' = 0

\* Mutant of Readdir: no try around readdir, so a missing directory rejects
\* main and the process exits with status 1.
ReaddirUncaught ==
    /\ pc = "merge"
    /\ IF ~hardcoded.exists
       THEN pc' = "exited" /\ exitStatus' = 1 /\ UNCHANGED mergeIdx
       ELSE pc' = "copy" /\ mergeIdx' = 1 /\ UNCHANGED exitStatus
    /\ UNCHANGED <<inputs, itemModels, output, startOutput, run, idx, outcomes,
                   prevOutcomes, written, surfaces, fatal>>

\* mergeHardcodedIcons: readdir(sourceDir); a missing directory rejects and
\* the catch swallows it
Readdir ==
    /\ pc = "merge"
    /\ IF ~hardcoded.exists
       THEN Return /\ UNCHANGED mergeIdx
       ELSE pc' = "copy" /\ mergeIdx' = 1 /\ UNCHANGED exitStatus
    /\ UNCHANGED <<inputs, itemModels, output, startOutput, run, idx, outcomes,
                   prevOutcomes, written, surfaces, fatal>>

\* entry.isFile() && entry.name.toLowerCase().endsWith('.png')
IsPngFile(entry) == entry.isFile /\ EndsWith(ToLowerCase(entry.name), ".png")

\* for (const entry of entries): the listing is exhausted
MergeExit ==
    /\ pc = "copy"
    /\ mergeIdx > Len(hardcoded.entries)
    /\ Return
    /\ UNCHANGED <<inputs, itemModels, output, startOutput, run, idx, outcomes,
                   prevOutcomes, written, surfaces, mergeIdx, fatal>>

\* an entry that is no .png file is passed over
MergeSkip ==
    /\ pc = "copy"
    /\ mergeIdx <= Len(hardcoded.entries)
    /\ ~IsPngFile(hardcoded.entries[mergeIdx])
    /\ mergeIdx' = mergeIdx + 1
    /\ UNCHANGED <<inputs, itemModels, output, startOutput, pc, run, idx,
                   outcomes, prevOutcomes, written, surfaces, fatal,
                   exitStatus>>

\* await copyFile(src, dest); a copy that throws lands in the catch around
\* the whole loop, which ends the merge
CopyFile ==
    /\ pc = "copy"
    /\ mergeIdx <= Len(hardcoded.entries)
    /\ IsPngFile(hardcoded.entries[mergeIdx])
    /\ \/ /\ output' = [output EXCEPT ![hardcoded.entries[mergeIdx].name] = "hardcoded"]
          /\ mergeIdx' = mergeIdx + 1
          /\ UNCHANGED <<pc, exitStatus>>
       \/ /\ Return
          /\ UNCHANGED <<output, mergeIdx>>
    /\ UNCHANGED <<inputs, itemModels, startOutput, run, idx, outcomes,
                   prevOutcomes, written, surfaces, fatal>>

\* The program is started again on the same inputs and output directory.
Rerun ==
    /\ pc = "exited"
    /\ exitStatus = 0
    /\ run < MaxRuns
    /\ run' = run + 1
    /\ pc' = "fetchRegistry"
    /\ itemModels' = {}
    /\ startOutput' = output
    /\ idx' = 0
    /\ prevOutcomes' = outcomes
    /\ outcomes' = <<>>
    /\ written' = {}
    /\ surfaces' = {}
    /\ mergeIdx' = 0
    /\ fatal' = "none"
    /\ exitStatus' = -1
    /\ UNCHANGED <<inputs, output>>

Next ==
    \/ FetchItemRegistryList
    \/ FetchAll
    \/ NewResourceManager
    \/ Mkdir
    \/ LoopExit
    \/ SkipNoModel
    \/ EnterTry
    \/ Access
    \/ CreateGL
    \/ Draw
    \/ Destroy
    \/ Encode
    \/ WriteFile
    \/ Readdir
    \/ MergeExit
    \/ MergeSkip
    \/ CopyFile
    \/ Rerun

Spec == Init /\ [][Next]_vars

TypeOK ==
    /\ pc \in {"fetchRegistry", "fetchAll", "construct", "mkdir", "loop",
               "access", "createGL", "draw", "destroy", "encode", "write",
               "merge", "copy", "exited", "idle"}
    /\ output \in [FileNames -> Contents]
    /\ exitStatus \in {-1, 0, 1}
    /\ run \in 1..MaxRuns
\* ------------------------------------------------------ claims about main

LoopPcs == {"loop", "access", "createGL", "draw", "destroy", "encode", "write"}

\* The render loop of this run is over.
LoopDone == pc \in {"merge", "copy"} \/ (pc = "exited" /\ fatal = "none")

\* The outcomes an id can end in, from its own model and its own output file
\* as the run found it.
ExpectedOutcomes(id) ==
    IF id \notin itemModels THEN {"SKIPPED_NO_MODEL"}
    ELSE IF startOutput[OutPath(id)] # "none" THEN {"SKIPPED_EXISTS"}
    ELSE {"SUCCEEDED", "FAILED"}

OutcomeSet == {outcomes[i].outcome : i \in 1..Len(outcomes)}

\* C1: in one run every id of the registry list is processed once, in
\* registry order, and ends in exactly one outcome: SKIPPED_NO_MODEL when there
\* is no ItemModel (file or no file), SKIPPED_EXISTS when there is a model and
\* a file at <id>.png, otherwise SUCCEEDED or FAILED; none is left out.
C1_OneOutcomePerId ==
    /\ pc \in LoopPcs => Len(outcomes) = idx - 1
    /\ Len(outcomes) <= Len(availableIds)
    /\ \A i \in 1..Len(outcomes) :
          /\ outcomes[i].id = availableIds[i]
          /\ outcomes[i].outcome \in ExpectedOutcomes(availableIds[i])
    /\ LoopDone => Len(outcomes) = Len(availableIds)

\* C1 witness: a finished loop over three ids, one without a model although
\* its file exists, one skipped for its file, one rendered.
C1_Witness ==
    /\ LoopDone
    /\ Len(outcomes) = 3
    /\ \E i \in 1..3 : /\ outcomes[i].outcome = "SKIPPED_NO_MODEL"
                       /\ output[OutPath(outcomes[i].id)] = "old"
    /\ {"SKIPPED_EXISTS", "SUCCEEDED"} \subseteq OutcomeSet

\* A step in which the current id ends FAILED.
FailedStep ==
    /\ Len(outcomes') = Len(outcomes) + 1
    /\ outcomes'[Len(outcomes')].outcome = "FAILED"

\* The catch of the loop body: the loop goes on with the next id, the process
\* keeps running and no other id's outcome or file is touched.
FailureIsCaught ==
    /\ pc' = "loop"
    /\ idx' = idx + 1
    /\ exitStatus' = -1
    /\ SubSeq(outcomes', 1, Len(outcomes)) = outcomes
    /\ \A f \in FileNames \ {OutPath(availableIds[idx])} : output'[f] = output[f]

\* C2: when rendering one id throws, that id ends FAILED, the loop goes on
\* with the next candidate, and every other id ends in the outcome its own
\* model and file give it.
C2_FailureIsolation ==
    /\ [](LoopDone =>
            \A i \in 1..Len(outcomes) :
               outcomes[i].outcome = "FAILED" =>
                  \A j \in (1..Len(availableIds)) \ {i} :
                     /\ j <= Len(outcomes)
                     /\ outcomes[j].id = availableIds[j]
                     /\ outcomes[j].outcome \in ExpectedOutcomes(availableIds[j]))
    /\ [][FailedStep => FailureIsCaught]_vars

\* C2 witness: the second of three ids failed, the first and the third were
\* rendered.
C2_Witness ==
    /\ LoopDone
    /\ Len(outcomes) = 3
    /\ outcomes[1].outcome = "SUCCEEDED"
    /\ outcomes[2].outcome = "FAILED"
    /\ outcomes[3].outcome = "SUCCEEDED"

\* C3: in the run after a run, every id that ended SUCCEEDED before ends
\* SKIPPED_EXISTS, and the loop never calls writeFile on its output file.
C3_Idempotence ==
    run >= 2 =>
       \A i \in 1..Len(prevOutcomes) :
          prevOutcomes[i].outcome = "SUCCEEDED" =>
             /\ OutPath(prevOutcomes[i].id) \notin written
             /\ i <= Len(outcomes) => outcomes[i].outcome = "SKIPPED_EXISTS"
             /\ LoopDone => i <= Len(outcomes)

\* C3 witness: the second run has finished its loop over an id the first run
\* rendered.
C3_Witness ==
    /\ run = 2
    /\ LoopDone
    /\ \E i \in 1..Len(prevOutcomes) : prevOutcomes[i].outcome = "SUCCEEDED"

\* A step that leaves every existing file as it is and calls writeFile only on
\* a path that holds no file.
KeepsExistingFiles ==
    /\ \A f \in FileNames : output[f] # "none" => output'[f] = output[f]
    /\ \A f \in written' \ written : output[f] = "none"

\* C4: the render loop calls writeFile on a path only if no file was there,
\* and no step of the loop changes the content of a file that exists.
C4_NeverOverwrites == [][(pc \in LoopPcs) => KeepsExistingFiles]_vars

\* C4 witness: the loop has passed over an id whose file existed, the file is
\* as it was, and another id was written.
C4_Witness ==
    /\ pc = "loop"
    /\ written # {}
    /\ \E i \in 1..Len(outcomes) :
          /\ outcomes[i].outcome = "SKIPPED_EXISTS"
          /\ output[OutPath(outcomes[i].id)] = "old"

IsImageFile(entry) == entry.isFile /\ EndsWith(ToLowerCase(entry.name), ".png")

\* C8: the merger runs only after every candidate has its outcome; when the
\* run ends, every image file of the hardcoded directory is in the output
\* directory under its name with the hardcoded content; a missing directory
\* changes nothing and raises no error.
C8_MergeCopiesEveryImage ==
    /\ pc \in {"merge", "copy"} => Len(outcomes) = Len(availableIds)
    /\ (pc = "exited" /\ fatal = "none") =>
          /\ exitStatus = 0
          /\ \A i \in 1..Len(hardcoded.entries) :
                IsImageFile(hardcoded.entries[i]) =>
                   output[hardcoded.entries[i].name] = "hardcoded"

\* C10: every surface allocated for an item is torn down before the next
\* candidate is processed, whatever the outcome: at most one surface is live
\* at any time and none when the loop ends.
C10_OneSurfaceTornDown ==
    /\ Cardinality(surfaces) <= 1
    /\ pc \in {"loop", "access", "createGL", "merge", "copy", "exited"} =>
          surfaces = {}
\* ============================================================ SpecClassify
\* src/src/twoD-overrides.ts and the classification lines of main.

COLORS ==
    <<"white", "light_gray", "gray", "black", "brown", "red", "orange",
      "yellow", "lime", "green", "cyan", "light_blue", "blue", "purple",
      "magenta", "pink">>

COPPER_BASES ==
    <<"copper_lantern", "copper_chain", "copper_door", "copper_bars",
      "copper_torch">>

WAX_STATES == <<"", "waxed">>

OXIDATION_STATES == <<"", "exposed", "weathered", "oxidized">>

CORAL_TYPES == <<"tube", "horn", "fire", "brain", "bubble">>

SAPLING_TYPES ==
    <<"spruce", "oak", "birch", "pale_oak", "cherry", "dark_oak", "jungle",
      "acacia", "mangrove">>

SINGLE_IDS ==
    <<"warped_roots", "weeping_vines", "torchflower", "vine", "warped_fungus",
      "twisting_vines", "tripwire_hook", "tipped_arrow", "torch",
      "tinted_glass", "tall_grass", "tall_dry_grass", "sunflower",
      "soul_torch", "small_amethyst_bud", "short_grass", "short_dry_grass",
      "rose_bush", "redstone_torch", "red_tulip", "red_mushroom",
      "recovery_compass", "rail", "powered_rail", "poppy", "pink_tulip",
      "peony", "oxeye_daisy", "orange_tulip", "open_eyeblossom",
      "medium_amethyst_bud", "lily_pad", "lily_of_the_valley", "lilac",
      "lever", "large_amethyst_bud", "large_fern", "hanging_roots",
      "glass_pane", "frogspawn", "fern", "enchanted_golden_apple",
      "detector_rail", "debug_stick", "dandelion", "crimson_fungus",
      "crimson_roots", "cornflower", "amethyst_cluster", "allium",
      "activator_rail", "azure_bluet", "brown_mushroom", "bush",
      "cactus_flower", "clock", "cobweb", "compass", "closed_eyeblossom">>

Range(seq) == {seq[i] : i \in 1..Len(seq)}

RECURSIVE Join(_, _)
\* Array.prototype.join
Join(tokens, sep) ==
    IF Len(tokens) = 0 THEN ""
    ELSE IF Len(tokens) = 1 THEN tokens[1]
    ELSE tokens[1] \o sep \o Join(Tail(tokens), sep)

NonEmptyToken(t) == t # ""

\* SuffixRule.generate
SuffixRule(bases, suffix) ==
    [i \in 1..Len(bases) |-> bases[i] \o "_" \o suffix]

RECURSIVE Recurse(_, _, _, _)
\* PrefixComboRule.generate: recurse(idx, tokens) for one base; groupIdx is the
\* code's idx, the number of groups already chosen from
Recurse(base, prefixGroups, groupIdx, tokens) ==
    IF groupIdx = Len(prefixGroups)
    THEN LET nonEmpty == SelectSeq(tokens, NonEmptyToken)
             prefix == Join(nonEmpty, "_")
         IN  {IF prefix # "" THEN prefix \o "_" \o base ELSE base}
    ELSE UNION {Recurse(base, prefixGroups, groupIdx + 1, Append(tokens, p)) :
                   p \in Range(prefixGroups[groupIdx + 1])}

\* PrefixComboRule.generate
PrefixComboRule(bases, prefixGroups) ==
    UNION {Recurse(base, prefixGroups, 0, <<>>) : base \in Range(bases)}

\* CoralRule.generate: four names per type, in flatMap order
CoralRule(types) ==
    [k \in 1..(4 * Len(types)) |->
        LET t == types[((k - 1) \div 4) + 1]
            v == (k - 1) % 4
        IN  CASE v = 0 -> t \o "_coral"
              [] v = 1 -> t \o "_coral_fan"
              [] v = 2 -> "dead_" \o t \o "_coral"
              [] OTHER -> "dead_" \o t \o "_coral_fan"]

\* ListRule.generate
ListRule(ids) == ids

\* getHardcodedTwoDItemIds
GetHardcodedTwoDItemIds ==
    Range(SuffixRule(COLORS, "stained_glass_pane"))
        \cup PrefixComboRule(COPPER_BASES, <<WAX_STATES, OXIDATION_STATES>>)
        \cup Range(CoralRule(CORAL_TYPES))
        \cup Range(SuffixRule(SAPLING_TYPES, "sapling"))
        \cup Range(ListRule(SINGLE_IDS))

\* fetchTwoDItemIds: the ids of the textures under item/, the empty id left out
FetchTwoDItemIds(list) ==
    {Slice(list[i], Len("item/")) :
        i \in {j \in 1..Len(list) :
                  /\ StartsWith(list[j], "item/")
                  /\ Slice(list[j], Len("item/")) # ""}}

\* Mutant of UnionTwoD: the declared ids replace the detected ones.
UnionTwoDDeclaredOnly(detected, declared) == declared

\* new Set([...detectedTwoDItemIds, ...getHardcodedTwoDItemIds()])
UnionTwoD(detected, declared) == detected \cup declared

RENDER_SIZE == 128

\* const size = twoDItemIds.has(id) ? 16 : RENDER_SIZE
RenderSize(id) == IF id \in twoDItemIds THEN 16 ELSE RENDER_SIZE

\* The texture paths a texture registry list is made of.
TexturePaths == {"item/apple", "item/", "block/stone", "entity/item/stone"}

\* The ids a size is chosen for: one only detected, one only declared, one
\* neither.
CandidateIds == {"apple", "torch", "stone"}

RECURSIVE SeqsUpTo(_, _)
\* The sequences over S of length at most n.
SeqsUpTo(S, n) ==
    IF n = 0 THEN {<<>>}
    ELSE LET shorter == SeqsUpTo(S, n - 1)
         IN  shorter \cup {Append(q, x) : q \in shorter, x \in S}

notClassify == <<mainVars, atlasVars, graphVars>>

ClassifyInit ==
    /\ textures \in SeqsUpTo(TexturePaths, MaxTextures)
    /\ candidates \in SeqsUpTo(CandidateIds, MaxCandidates)
    /\ detectedTwoDItemIds = {}
    /\ twoDItemIds = {}
    /\ sizes = <<>>
    /\ cpc = "fetch"
    /\ MainIdle
    /\ AtlasIdle
    /\ GraphIdle

\* detectedTwoDItemIds = await fetchTwoDItemIds()
FetchTwoD ==
    /\ cpc = "fetch"
    /\ detectedTwoDItemIds' = FetchTwoDItemIds(textures)
    /\ cpc' = "union"
    /\ UNCHANGED <<textures, candidates, twoDItemIds, sizes, notClassify>>

\* const twoDItemIds = new Set([...detectedTwoDItemIds, ...getHardcodedTwoDItemIds()])
BuildTwoDItemIds ==
    /\ cpc = "union"
    /\ twoDItemIds' = UnionTwoD(detectedTwoDItemIds, GetHardcodedTwoDItemIds)
    /\ cpc' = "size"
    /\ UNCHANGED <<textures, candidates, detectedTwoDItemIds, sizes,
                   notClassify>>

\* the size of the next id that is rendered
SelectSize ==
    /\ cpc = "size"
    /\ Len(sizes) < Len(candidates)
    /\ LET id == candidates[Len(sizes) + 1]
       IN  sizes' = Append(sizes, [id |-> id, size |-> RenderSize(id)])
    /\ UNCHANGED <<textures, candidates, detectedTwoDItemIds, twoDItemIds,
                   cpc, notClassify>>

ClassifyNext ==
    \/ FetchTwoD
    \/ BuildTwoDItemIds
    \/ SelectSize

SpecClassify == ClassifyInit /\ [][ClassifyNext]_vars

\* The ids declared by the rules of twoD-overrides.ts, written out by kind.
DeclaredIds ==
    {c \o "_stained_glass_pane" : c \in Range(COLORS)}
        \cup {Join(SelectSeq(<<w, o, b>>, NonEmptyToken), "_") :
                 w \in Range(WAX_STATES), o \in Range(OXIDATION_STATES),
                 b \in Range(COPPER_BASES)}
        \cup UNION {{t \o "_coral", t \o "_coral_fan", "dead_" \o t \o "_coral",
                     "dead_" \o t \o "_coral_fan"} : t \in Range(CORAL_TYPES)}
        \cup {t \o "_sapling" : t \in Range(SAPLING_TYPES)}
        \cup Range(SINGLE_IDS)

\* Every texture path that starts with item/, with the prefix stripped.
StrippedItemPaths ==
    {SubSeq(t, 6, Len(t)) : t \in {x \in Range(textures) : StartsWith(x, "item/")}}

SizesFollowSet ==
    \A i \in 1..Len(sizes) :
       /\ sizes[i].id = candidates[i]
       /\ sizes[i].size = IF sizes[i].id \in twoDItemIds THEN 16 ELSE 128

RECURSIVE PowerOfTwoFrom(_, _)
PowerOfTwoFrom(p, x) == IF p >= x THEN p ELSE PowerOfTwoFrom(2 * p, x)

\* upperPowerOfTwo (deepslate/render): the smallest power of two >= x, x >= 1
UpperPowerOfTwo(x) == PowerOfTwoFrom(1, x)

\* Identifier.create(rawId).toString(): the default namespace is added to an
\* id that names none
Canonical(rawId) ==
    IF \E i \in 1..Len(rawId) : SubSeq(rawId, i, i) = ":"
    THEN rawId
    ELSE "minecraft:" \o rawId

\* loadBlockAtlas, the loop body: the UV of one entry, each component a
\* fraction <<numerator, denominator>>
UVRect(w, h, rawId, tuple) ==
    LET u == tuple[1]
        v == tuple[2]
        du == tuple[3]
        dv == tuple[4]
        dv2 == IF du # dv /\ StartsWith(rawId, "block/") THEN du ELSE dv
    IN  << <<u, w>>, <<v, h>>, <<u + du, w>>, <<v + dv2, h>> >>

\* The raw texture paths of the UV table.
RawTextureIds == {"block/lava_flow", "item/apple"}

\* The rectangles (start, extent) that lie inside 0..size, extent >= 1.
Spans(size) == {<<a, d>> \in (0..(size - 1)) \X (1..size) : a + d <= size}

notAtlas == <<mainVars, classifyVars, graphVars>>

AtlasInit ==
    /\ \E width \in 1..MaxDim, height \in 1..MaxDim :
          \E rawId \in RawTextureIds, hs \in Spans(width), vs \in Spans(height) :
             atlasInput = [width |-> width, height |-> height, rawId |-> rawId,
                           tuple |-> <<hs[1], vs[1], hs[2], vs[2]>>]
    /\ idMap = <<>>
    /\ apc = "load"
    /\ MainIdle
    /\ ClassifyIdle
    /\ GraphIdle

\* loadBlockAtlas(image, textures)
LoadBlockAtlas ==
    /\ apc = "load"
    /\ LET w == UpperPowerOfTwo(atlasInput.width)
           h == UpperPowerOfTwo(atlasInput.height)
       IN  idMap' = <<[id |-> Canonical(atlasInput.rawId), w |-> w, h |-> h,
                       uv |-> UVRect(w, h, atlasInput.rawId, atlasInput.tuple)]>>
    /\ apc' = "loaded"
    /\ UNCHANGED <<atlasInput, notAtlas>>

AtlasNext == LoadBlockAtlas

SpecAtlas == AtlasInit /\ [][AtlasNext]_vars

\* a <= b and a < b on fractions with positive denominators
FracLeq(a, b) == a[1] * b[2] <= b[1] * a[2]
FracLess(a, b) == a[1] * b[2] < b[1] * a[2]

Zero == <<0, 1>>
One == <<1, 1>>

\* C5: for every entry whose recorded rectangle is non-empty and inside the
\* source bitmap, block/ entries with du # dv included, the emitted rectangle
\* has 0 <= u0 < u1 <= 1 and 0 <= v0 < v1 <= 1.
C5_UVInUnitSquare ==
    apc = "loaded" =>
       \A i \in 1..Len(idMap) :
          LET uv == idMap[i].uv
          IN  /\ FracLeq(Zero, uv[1]) /\ FracLess(uv[1], uv[3]) /\ FracLeq(uv[3], One)
              /\ FracLeq(Zero, uv[2]) /\ FracLess(uv[2], uv[4]) /\ FracLeq(uv[4], One)

\* =============================================================== SpecGraph
\* The ResourceManager constructor, one load step or loop turn at a time.

\* The entries of the model registry: a root, a child of it, and a model
\* whose parent is not in the registry.
ModelEntries ==
    { [id |-> "block/cube_all", parent |-> ""],
      [id |-> "block/stone", parent |-> "block/cube_all"],
      [id |-> "item/handheld", parent |-> "item/generated"] }

\* The model registries: the entries in any Map order, each id once.
ModelRegistries ==
    {q \in SeqsUpTo(ModelEntries, Min(MaxModels, Cardinality(ModelEntries))) :
        \A i, j \in 1..Len(q) : i # j => q[i] # q[j]}

RawModelIds == {rawModels[i].id : i \in 1..Len(rawModels)}

notGraph == <<mainVars, classifyVars, atlasVars>>

graphData == <<blockDefinitions, blockModels, flattened, textureAtlas,
               graphItemModels, queries, loaded>>

GraphInit ==
    /\ rawModels \in ModelRegistries
    /\ blockDefinitions = FALSE
    /\ blockModels = {}
    /\ flattened = {}
    /\ textureAtlas = FALSE
    /\ graphItemModels = FALSE
    /\ queries = {}
    /\ loaded = <<>>
    /\ gIdx = 0
    /\ gpc = "blockDefinitions"
    /\ MainIdle
    /\ ClassifyIdle
    /\ AtlasIdle

\* this.loadBlockDefinitions(blockDefinitions)
LoadBlockDefinitions ==
    /\ gpc = "blockDefinitions"
    /\ blockDefinitions' = TRUE
    /\ loaded' = Append(loaded, "blockDefinitions")
    /\ gpc' = "parse"
    /\ gIdx' = 1
    /\ UNCHANGED <<rawModels, blockModels, flattened, textureAtlas,
                   graphItemModels, queries, notGraph>>

\* loadBlockModels, first loop: this.blockModels[...] = BlockModel.fromJson(model)
ParseBlockModel ==
    /\ gpc = "parse"
    /\ gIdx <= Len(rawModels)
    /\ \/ /\ blockModels' = blockModels \cup {rawModels[gIdx].id}
          /\ gIdx' = gIdx + 1
          /\ UNCHANGED gpc
       \/ /\ gpc' = "failed"
          /\ UNCHANGED <<blockModels, gIdx>>
    /\ UNCHANGED <<rawModels, blockDefinitions, flattened, textureAtlas,
                   graphItemModels, queries, loaded, notGraph>>

\* Mutant of ParseLoopDone: flatten is called inside the parse loop, as soon
\* as one model is stored.
ParseLoopDoneEarly == gIdx > 1

\* loadBlockModels: the first loop has gone through every entry
ParseLoopDone == gIdx > Len(rawModels)

\* loadBlockModels: the second loop starts
StartFlatten ==
    /\ gpc = "parse"
    /\ ParseLoopDone
    /\ gpc' = "flatten"
    /\ gIdx' = 1
    /\ UNCHANGED <<rawModels, graphData, notGraph>>

\* getTextureUV: this.textureAtlas.getTextureUV(id) needs the atlas assigned
GetTextureUVWorks == textureAtlas

\* loadBlockModels, second loop: model.flatten(this). flatten looks its parent
\* up with getBlockModel; an atlas lookup, if it makes one, throws while
\* textureAtlas is unassigned.
FlattenBlockModel ==
    /\ gpc = "flatten"
    /\ gIdx <= Len(rawModels)
    /\ LET m == rawModels[gIdx]
           parentQuery ==
               IF m.parent = "" THEN {}
               ELSE {[by |-> m.id, lookup |-> "getBlockModel",
                      complete |-> RawModelIds \subseteq blockModels,
                      found |-> m.parent \in blockModels]}
       IN  \E usesAtlas \in BOOLEAN :
              IF usesAtlas /\ ~GetTextureUVWorks
              THEN /\ gpc' = "failed"
                   /\ queries' = queries \cup parentQuery
                          \cup {[by |-> m.id, lookup |-> "getTextureUV",
                                 complete |-> FALSE, found |-> FALSE]}
                   /\ UNCHANGED <<flattened, gIdx>>
              ELSE /\ queries' = queries \cup parentQuery
                   /\ flattened' = flattened \cup {m.id}
                   /\ gIdx' = gIdx + 1
                   /\ UNCHANGED gpc
    /\ UNCHANGED <<rawModels, blockDefinitions, blockModels, textureAtlas,
                   graphItemModels, loaded, notGraph>>

\* loadBlockModels returns
EndFlatten ==
    /\ gpc = "flatten"
    /\ gIdx > Len(rawModels)
    /\ loaded' = Append(loaded, "blockModels")
    /\ gpc' = "atlas"
    /\ UNCHANGED <<rawModels, blockDefinitions, blockModels, flattened,
                   textureAtlas, graphItemModels, queries, gIdx, notGraph>>

\* this.loadBlockAtlas(atlasImage, uvMapping)
LoadBlockAtlasStep ==
    /\ gpc = "atlas"
    /\ textureAtlas' = TRUE
    /\ loaded' = Append(loaded, "textureAtlas")
    /\ gpc' = "itemModels"
    /\ UNCHANGED <<rawModels, blockDefinitions, blockModels, flattened,
                   graphItemModels, queries, gIdx, notGraph>>

\* this.loadItemModels(itemDefinitions)
LoadItemModelsStep ==
    /\ gpc = "itemModels"
    /\ graphItemModels' = TRUE
    /\ loaded' = Append(loaded, "itemModels")
    /\ gpc' = "done"
    /\ UNCHANGED <<rawModels, blockDefinitions, blockModels, flattened,
                   textureAtlas, queries, gIdx, notGraph>>

GraphNext ==
    \/ LoadBlockDefinitions
    \/ ParseBlockModel
    \/ StartFlatten
    \/ FlattenBlockModel
    \/ EndFlatten
    \/ LoadBlockAtlasStep
    \/ LoadItemModelsStep

SpecGraph == GraphInit /\ [][GraphNext]_vars

\* The flattening pass has started.
Flattening == gpc = "flatten" \/ flattened # {}

\* C9 as stated: flattening starts only after every block model is stored;
\* when it runs, the block-model lookup and the atlas UV lookup are both
\* built; the steps run in the order block definitions, block models with
\* flattening, item models, texture atlas.
C9_Original ==
    /\ Flattening => RawModelIds \subseteq blockModels
    /\ gpc = "flatten" => textureAtlas
    /\ gpc = "done" =>
          loaded = <<"blockDefinitions", "blockModels", "itemModels", "textureAtlas">>

\* C9, amended: flattening starts only after every block model is stored, so
\* every block-model lookup it makes finds the complete map; the texture atlas
\* is not yet assigned while it runs; the steps run in the order block
\* definitions, block models with flattening, texture atlas, item models.
C9_ConstructionOrder ==
    /\ Flattening => blockDefinitions /\ RawModelIds \subseteq blockModels
    /\ \A q \in queries : q.lookup = "getBlockModel" => q.complete
    /\ gpc = "flatten" => ~textureAtlas /\ ~graphItemModels
    /\ gpc = "done" =>
          loaded = <<"blockDefinitions", "blockModels", "textureAtlas", "itemModels">>

\* C9 witness: the constructor is done, over a registry of three models that
\* stores a child before its parent, and flattening looked the parent up.
C9_Witness ==
    /\ gpc = "done"
    /\ Len(rawModels) = 3
    /\ rawModels[1].id = "block/stone"
    /\ \E q \in queries : q.by = "block/stone" /\ q.found
====
